---- MODULE Spec2Model ----
(***************************************************************************)
(* Deck Task Manager API: the task / task-folder repositories, the service *)
(* layer that wraps them into {success, message, data?} envelopes and the  *)
(* controllers that answer the HTTP requests, over a model of the          *)
(* Firestore document tree task_folders/{uid}/folders/{fid}/tasks/{tid}.   *)
(* One user is modelled: every path of the code is scoped by userId.       *)
(***************************************************************************)
EXTENDS Integers, Sequences, FiniteSets, TLC

(***************************************************************************)
(* Bounds of the model.                                                    *)
(***************************************************************************)
MaxFolders == 2
MaxTasks == 2
\* The longest request path, in segments.
MaxSegments == 3

FolderIds == 1..MaxFolders
TaskIds == 1..MaxTasks

(***************************************************************************)
(* JavaScript strings are sequences of characters, so that toLowerCase and *)
(* === act on the characters and not on names of strings.                  *)
(***************************************************************************)
UpperChars == <<"A", "B", "C", "D", "E", "F", "G", "H", "I", "J", "K", "L", "M",
                "N", "O", "P", "Q", "R", "S", "T", "U", "V", "W", "X", "Y", "Z">>
LowerChars == <<"a", "b", "c", "d", "e", "f", "g", "h", "i", "j", "k", "l", "m",
                "n", "o", "p", "q", "r", "s", "t", "u", "v", "w", "x", "y", "z">>

LowerChar(c) ==
  IF \E i \in DOMAIN UpperChars : UpperChars[i] = c
  THEN LowerChars[CHOOSE i \in DOMAIN UpperChars : UpperChars[i] = c]
  ELSE c

\* String.prototype.toLowerCase
ToLowerCase(s) == [i \in 1..Len(s) |-> LowerChar(s[i])]

str_pending == <<"p", "e", "n", "d", "i", "n", "g">>
str_Pending == <<"P", "e", "n", "d", "i", "n", "g">>
str_in_progress == <<"i", "n", " ", "p", "r", "o", "g", "r", "e", "s", "s">>
str_In_Progress == <<"I", "n", " ", "P", "r", "o", "g", "r", "e", "s", "s">>
str_in_progress_underscore == <<"i", "n", "_", "p", "r", "o", "g", "r", "e", "s", "s">>
str_completed == <<"c", "o", "m", "p", "l", "e", "t", "e", "d">>
str_Completed == <<"C", "o", "m", "p", "l", "e", "t", "e", "d">>
str_COMPLETED_space == <<"C", "O", "M", "P", "L", "E", "T", "E", "D", " ">>
str_done == <<"d", "o", "n", "e">>

\* The status strings a stored task is given in the model: every spelling the
\* code or its documentation names, and one it does not know.
StatusValues ==
  {str_pending, str_Pending, str_in_progress, str_In_Progress,
   str_in_progress_underscore, str_completed, str_Completed,
   str_COMPLETED_space, str_done}

\* TaskController.updateTask: allowedStatuses
allowedStatuses == {str_Pending, str_In_Progress, str_Completed}

(***************************************************************************)
(* JavaScript values that may be null or absent are sequences of length at *)
(* most one: <<>> is null, <<v>> is the value v.                           *)
(***************************************************************************)
JsNull == <<>>
Some(v) == <<v>>
IsNull(x) == x = <<>>
ValueOf(x) == x[1]

(***************************************************************************)
(* Time.  A Date is a whole number of time units; DayUnits of them make a  *)
(* day (the code divides milliseconds by 1000 * 60 * 60 * 24).             *)
(***************************************************************************)
DayUnits == 2

\* The date argument of a by-date request: a Date object, or the JSON value
\* of a request body (express.json() yields strings and numbers, no Dates).
NoDate == [isDate |-> FALSE, at |-> 0]
JsonDate(n) == [isDate |-> FALSE, at |-> n]
DateObject(n) == [isDate |-> TRUE, at |-> n]

(***************************************************************************)
(* Inputs of the requests.                                                 *)
(***************************************************************************)
\* req.body.taskFolderDetails.title
FolderTitleInputs == {"Work", ""}
\* req.body.taskFolderDetails.description
FolderDescriptionInputs == {"about"}
\* req.body.taskDetails.title / description: null or a string
TextInputs == {JsNull, Some("text")}
\* req.body.taskDetails.status on create-task (the controller checks nothing)
CreateStatusInputs == {str_Pending}
\* req.body.taskDetails.status on update-task: one the controller accepts, one
\* it rejects
UpdateStatusInputs == {str_Completed, str_done}
\* req.body.taskDetails.end_date
EndDateInputs == {JsNull, Some(20)}
\* req.body.taskDetails.start_date: the JSON value of the body
StartDateInputs == {Some(20)}
\* start_date and end_date of the bodies of the requests that write dates: a
\* day and the day after
DateInputs == {Some(20), Some(22)}
\* status and priority of the bodies of the requests that write them: allowed
\* values, values outside the allowed ones and the empty string
EnumStatusInputs == {str_Completed, str_done, <<>>}
EnumPriorityInputs == {"Low", "Urgent", ""}
\* title and description of the bodies of the requests that write them: null,
\* the empty string, a text
AnyTextInputs == {JsNull, Some(""), Some("text")}
\* req.body.taskDetails.priority
PriorityInputs == {"High"}
allowedPriorities == {"High", "Medium", "Low"}
\* new Date() when getNearingDueTasks runs, and its daysThreshold (3 is the
\* default of the parameter)
NowValues == {20, 21}
ThresholdInputs == {3}
\* The end dates of stored tasks in the scans of getNearingDueTasks: none, and
\* two that lie, from the two values of now, 0 days ahead, half a day back, 3
\* days ahead and 3.5 days ahead
NearingEndDates == {JsNull, Some(20), Some(27)}
\* orderBy of getTasksByFolder
OrderFields == {"end_date"}
\* date of getTasksByDate: req.body.date as TaskController.getTasksByDate
\* passes it on, and a Date as the parameter is declared
ByDateArgs == {JsonDate(20), DateObject(20)}
\* date of getTasksByDateInFolder: new Date(req.query.date)
ByDateInFolderArgs == {DateObject(20)}

\* The values the update requests of the merge checks supply: each differs
\* from the stored value of its field.
MergeStatusInputs == {str_Completed}
MergeEndDateInputs == {Some(24)}
MergeFolderTitleInputs == {"Home"}

\* A field of a Partial<Task>: omitted (has = FALSE) or supplied with a value.
Omitted == [has |-> FALSE, val |-> JsNull]
Supplied(v) == [has |-> TRUE, val |-> v]

(***************************************************************************)
(* The state.                                                              *)
(*  folders, tasks   the documents of the store: a folder document is      *)
(*                   [id, title, description], a task document [id,        *)
(*                   folder, title, description, status, priority,         *)
(*                   start_date, end_date];                                *)
(*                   dates are the JSON values of the request bodies, as   *)
(*                   create-task and update-task store the body's          *)
(*                   taskDetails as they are; a task's path is             *)
(*                   folders/{folder}/tasks/{id}, whether or not the       *)
(*                   folder document exists                                *)
(*  nextFolderId, nextTaskId   the ids the store's add() generates         *)
(*  op               the request that is suspended at an await (a          *)
(*                   multi-step read or the recursive delete), or that     *)
(*                   the router has not dispatched yet                     *)
(*  last             the outcome of the last single-call request, kept     *)
(*                   until a multi-step request starts                     *)
(***************************************************************************)
VARIABLES folders, tasks, nextFolderId, nextTaskId, op, last

vars == <<folders, tasks, nextFolderId, nextTaskId, op, last>>
store == <<folders, tasks, nextFolderId, nextTaskId>>

NoBranches == [f \in FolderIds |-> "none"]
NoParts == [f \in FolderIds |-> <<>>]
NoValue == [isNull |-> TRUE, list |-> <<>>,
            pending |-> <<>>, inProgress |-> <<>>, completed |-> <<>>]
NoRet == [state |-> "none", status |-> 0, value |-> NoValue]
NoResp == [svc |-> "none", success |-> FALSE, http |-> 0]

\* No request is suspended.
IdleOp ==
  [kind |-> "idle", pc |-> "idle", folderId |-> 0, orderBy |-> "",
   now |-> 0, threshold |-> 0, docs |-> <<>>, branch |-> NoBranches,
   parts |-> NoParts, acc |-> <<>>, title |-> "", targets |-> {},
   todo |-> {}, failed |-> FALSE, dirty |-> FALSE, ret |-> NoRet, resp |-> NoResp,
   date |-> NoDate, out |-> NoValue,
   method |-> "", path |-> <<>>, handler |-> ""]

NoLast == [kind |-> "none", storeFailed |-> FALSE,
           svc |-> "none", success |-> FALSE, http |-> 0, data |-> <<>>,
           req |-> <<>>]

\* A new request may start when none is suspended.
Free == op.pc \in {"idle", "done"}

\* A single-call request ends with outcome `out`; wrote tells whether it
\* changed the store.  While another request is suspended the write makes
\* that request's earlier reads stale (dirty) and the outcome is not kept;
\* otherwise the outcome is kept and replaces the record of the request
\* that finished before.
Answered(out, wrote) ==
  /\ last' = IF Free THEN out ELSE last
  /\ op' = IF Free THEN IdleOp
           ELSE IF wrote THEN [op EXCEPT !.dirty = TRUE] ELSE op

Init ==
  /\ folders = {}
  /\ tasks = {}
  /\ nextFolderId = 1
  /\ nextTaskId = 1
  /\ op = IdleOp
  /\ last = NoLast

(***************************************************************************)
(* The document store (Firestore), as the repositories use it.             *)
(***************************************************************************)
FolderExists(f) == \E d \in folders : d.id = f
FolderDoc(f) == CHOOSE d \in folders : d.id = f
TasksOf(f) == {t \in tasks : t.folder = f}
TaskExists(f, id) == \E t \in tasks : t.folder = f /\ t.id = id
TaskDoc(f, id) == CHOOSE t \in tasks : t.folder = f /\ t.id = id

Outcome(kind, storeFailed, svc, success, http) ==
  [kind |-> kind, storeFailed |-> storeFailed,
   svc |-> svc, success |-> success, http |-> http, data |-> <<>>,
   req |-> <<>>]

\* The outcome with the request it answers: the dates of the taskDetails of
\* an update-task request.
WithReq(out, details) ==
  [out EXCEPT !.req = <<[start_date |-> details.start_date,
                         end_date |-> details.end_date]>>]

\* The outcome with the data field of the envelope.
WithData(out, data) == [out EXCEPT !.data = <<data>>]

\* snapshot.data(): the fields of a folder document, without its id.
FolderData(d) == [title |-> d.title, description |-> d.description]

\* {id: folderRef.id, ...createdFolder}
NewTaskFolder(id, data) ==
  [id |-> id, title |-> data.title, description |-> data.description]

\* The outcome with the request it answers in full: the document the request
\* names and the partial details of its body.
WithRequest(out, folderId, id, details) ==
  [out EXCEPT !.req = <<[folderId |-> folderId, id |-> id,
                         details |-> details]>>]

(***************************************************************************)
(* Requests that make one store call (two for create-task-folder): each is *)
(* one action, controller, service and repository together.  ok is the     *)
(* outcome of the store call: it succeeds or fails with an I/O error.      *)
(***************************************************************************)

\* POST create-task-folder.  The repository adds the document and reads it
\* back; it throws an ApiError when either call fails, the service turns the
\* exception into success = false and the controller answers 200 with the
\* envelope.
CreateTaskFolder ==
  \E title \in FolderTitleInputs, description \in FolderDescriptionInputs,
     addOk \in BOOLEAN, getOk \in BOOLEAN :
    /\ nextFolderId <= MaxFolders
    /\ folders' = IF addOk
                  THEN folders \cup {[id |-> nextFolderId, title |-> title,
                                      description |-> description]}
                  ELSE folders
    /\ nextFolderId' = IF addOk THEN nextFolderId + 1 ELSE nextFolderId
    /\ LET out == Outcome("createTaskFolder", ~(addOk /\ getOk),
                          "envelope", addOk /\ getOk, 200)
           created == NewTaskFolder(nextFolderId,
                                    [title |-> title, description |-> description])
       IN Answered(IF addOk /\ getOk THEN WithData(out, created) ELSE out, addOk)
    /\ UNCHANGED <<tasks, nextTaskId>>

\* The sets of partial folder details whose fields are omitted or supplied
\* from the given values.
FolderDetailsOf(Titles, Descriptions) ==
  [title : {Omitted} \cup {Supplied(v) : v \in Titles},
   description : {Omitted} \cup {Supplied(v) : v \in Descriptions}]

\* The partial folder details of an update-task-folder request.
UpdateFolderDetails == FolderDetailsOf(FolderTitleInputs, {})

\* The folder document after update(partial).
MergedFolder(doc, details) ==
  [doc EXCEPT
     !.title = IF details.title.has THEN details.title.val ELSE @,
     !.description = IF details.description.has THEN details.description.val
                     ELSE @]

\* UpdateTaskFolderAs with set(partial, {merge: true}) for update(partial):
\* the document is written whether it exists or not.
UpdateTaskFolderUpserting(Details, full) ==
  \E f \in FolderIds, details \in Details, ok \in BOOLEAN :
    LET out == Outcome("updateTaskFolder", ~ok, "envelope", ok,
                       IF ok THEN 200 ELSE 400)
        doc == IF FolderExists(f) THEN FolderDoc(f)
               ELSE [id |-> f, title |-> "", description |-> ""]
    IN
    /\ folders' = IF ok
                  THEN {d \in folders : d.id # f}
                         \cup {MergedFolder(doc, details)}
                  ELSE folders
    /\ Answered(IF full THEN WithRequest(out, f, 0, details) ELSE out, ok)
    /\ UNCHANGED <<tasks, nextFolderId, nextTaskId>>

\* PUT update-task-folder, with any of the given partial details.  update()
\* of a document that does not exist fails; the service turns every
\* exception into success = false and the controller answers 400 for it.
\* full tells whether the outcome is kept with the request in full.
UpdateTaskFolderAs(Details, full) ==
  \E f \in FolderIds, details \in Details, ok \in BOOLEAN :
    LET done == ok /\ FolderExists(f)
        out == Outcome("updateTaskFolder", ~done, "envelope", done,
                       IF done THEN 200 ELSE 400)
    IN
    /\ folders' = IF done
                  THEN (folders \ {FolderDoc(f)})
                         \cup {MergedFolder(FolderDoc(f), details)}
                  ELSE folders
    /\ Answered(IF full THEN WithRequest(out, f, 0, details) ELSE out, done)
    /\ UNCHANGED <<tasks, nextFolderId, nextTaskId>>

UpdateTaskFolder == UpdateTaskFolderAs(UpdateFolderDetails, FALSE)

\* POST create-task.  The service rejects a null title or description before
\* the store call; the repository call is outside any try, so its ApiError
\* leaves the service and the controller, and no response is sent.  The
\* store adds the document under the folder path, the folder existing or not.
CreateTaskOf(Titles, Descriptions, Statuses, Priorities, StartDates, EndDates) ==
  \E f \in FolderIds, title \in Titles, description \in Descriptions,
     status \in Statuses, priority \in Priorities,
     start_date \in StartDates, end_date \in EndDates, ok \in BOOLEAN :
    /\ nextTaskId <= MaxTasks
    /\ IF IsNull(title) \/ IsNull(description)
       THEN /\ Answered(Outcome("createTask", FALSE, "envelope", FALSE, 200), FALSE)
            /\ UNCHANGED <<tasks, nextTaskId>>
       ELSE IF ok
       THEN /\ tasks' = tasks \cup
                          {[id |-> nextTaskId, folder |-> f, title |-> title,
                            description |-> description, status |-> status,
                            priority |-> priority, start_date |-> start_date,
                            end_date |-> end_date]}
            /\ nextTaskId' = nextTaskId + 1
            /\ Answered(Outcome("createTask", FALSE, "envelope", TRUE, 200), TRUE)
       ELSE /\ Answered(Outcome("createTask", TRUE, "threw", FALSE, 0), FALSE)
            /\ UNCHANGED <<tasks, nextTaskId>>
    /\ UNCHANGED <<folders, nextFolderId>>

CreateTask ==
  CreateTaskOf(TextInputs, TextInputs, CreateStatusInputs, PriorityInputs,
               StartDateInputs, EndDateInputs)

\* Merged as set(partial) writes the document: the fields that are not
\* supplied are gone.
MergedReplacing(doc, details) ==
  [doc EXCEPT
     !.title = IF details.title.has THEN details.title.val ELSE JsNull,
     !.description = IF details.description.has THEN details.description.val
                     ELSE JsNull,
     !.status = IF details.status.has THEN details.status.val ELSE <<>>,
     !.priority = IF details.priority.has THEN details.priority.val ELSE "",
     !.start_date = IF details.start_date.has THEN details.start_date.val
                    ELSE JsNull,
     !.end_date = IF details.end_date.has THEN details.end_date.val ELSE JsNull]

\* The document after update(partial): the supplied fields replace the stored
\* ones, the others stay.
Merged(doc, details) ==
  [doc EXCEPT
     !.title = IF details.title.has THEN details.title.val ELSE @,
     !.description = IF details.description.has THEN details.description.val ELSE @,
     !.status = IF details.status.has THEN details.status.val ELSE @,
     !.priority = IF details.priority.has THEN details.priority.val ELSE @,
     !.start_date = IF details.start_date.has THEN details.start_date.val ELSE @,
     !.end_date = IF details.end_date.has THEN details.end_date.val ELSE @]

\* The sets of partial task details whose fields are omitted or supplied from
\* the given values.
DetailsOf(Titles, Descriptions, Statuses, Priorities, StartDates, EndDates) ==
  [title : {Omitted} \cup {Supplied(v) : v \in Titles},
   description : {Omitted} \cup {Supplied(v) : v \in Descriptions},
   status : {Omitted} \cup {Supplied(v) : v \in Statuses},
   priority : {Omitted} \cup {Supplied(v) : v \in Priorities},
   start_date : {Omitted} \cup {Supplied(v) : v \in StartDates},
   end_date : {Omitted} \cup {Supplied(v) : v \in EndDates}]

\* The partial task details of an update-task request.
UpdateDetails == DetailsOf(TextInputs, {}, UpdateStatusInputs, {}, {}, {})

\* if (taskDetails.status): supplied and not the empty string.
StatusGiven(field) == field.has /\ field.val # <<>>

\* if (taskDetails.priority): supplied and not the empty string.
PriorityGiven(field) == field.has /\ field.val # ""

\* if (taskDetails.start_date), if (taskDetails.end_date): supplied, not
\* null and not 0.
DateGiven(field) == field.has /\ field.val # JsNull /\ field.val # Some(0)

\* EndsBeforeStart with the two dates compared the other way round.
EndsBeforeStartSwapped(details) ==
  /\ DateGiven(details.start_date) /\ DateGiven(details.end_date)
  /\ ValueOf(details.start_date.val) < ValueOf(details.end_date.val)

\* new Date(start_date), new Date(end_date) and endDate < startDate
EndsBeforeStart(details) ==
  /\ DateGiven(details.start_date) /\ DateGiven(details.end_date)
  /\ ValueOf(details.end_date.val) < ValueOf(details.start_date.val)

\* TitleOrDescriptionNull with a field that is not supplied taken for null.
TitleOrDescriptionMissing(details) ==
  \/ IsNull(details.title.val)
  \/ IsNull(details.description.val)

\* task.title === null || task.description === null: a field that is not
\* supplied is undefined, which is not null.
TitleOrDescriptionNull(details) ==
  \/ details.title.has /\ IsNull(details.title.val)
  \/ details.description.has /\ IsNull(details.description.val)

\* PUT update-task.  The controller rejects a priority or status outside the
\* allowed ones, and an end_date before the start_date of the same body,
\* with 400 before the service is called; the service rejects a null title
\* or description; update() of a missing document or a failing store call is
\* caught by the service and becomes success = false, answered with 400.
\* full tells whether the outcome is kept with the request in full or with
\* its dates alone.
UpdateTaskAs(Details, full) ==
  \E f \in FolderIds, id \in TaskIds, details \in Details, ok \in BOOLEAN :
    LET Out(storeFailed, svc, success, http) ==
          LET out == Outcome("updateTask", storeFailed, svc, success, http)
          IN IF full THEN WithRequest(out, f, id, details)
             ELSE WithReq(out, details)
    IN
    IF \/ PriorityGiven(details.priority)
          /\ details.priority.val \notin allowedPriorities
       \/ StatusGiven(details.status) /\ details.status.val \notin allowedStatuses
       \/ EndsBeforeStart(details)
    THEN /\ Answered(Out(FALSE, "none", FALSE, 400), FALSE)
         /\ UNCHANGED store
    ELSE IF TitleOrDescriptionNull(details)
    THEN /\ Answered(Out(FALSE, "envelope", FALSE, 400), FALSE)
         /\ UNCHANGED store
    ELSE IF ok /\ TaskExists(f, id)
    THEN /\ tasks' = (tasks \ {TaskDoc(f, id)}) \cup {Merged(TaskDoc(f, id), details)}
         /\ Answered(Out(FALSE, "envelope", TRUE, 200), TRUE)
         /\ UNCHANGED <<folders, nextFolderId, nextTaskId>>
    ELSE /\ Answered(Out(TRUE, "envelope", FALSE, 400), FALSE)
         /\ UNCHANGED store

UpdateTaskOf(Details) == UpdateTaskAs(Details, FALSE)

UpdateTask == UpdateTaskOf(UpdateDetails)

\* DELETE delete-task.  delete() of a missing document succeeds.  The catch
\* of the service returns success: true, and the controller answers 200 with
\* success: true for every envelope it gets.
DeleteTask ==
  \E f \in FolderIds, id \in TaskIds, ok \in BOOLEAN :
    /\ tasks' = IF ok THEN {t \in tasks : ~(t.folder = f /\ t.id = id)} ELSE tasks
    /\ Answered(Outcome("deleteTask", ~ok, "envelope", TRUE, 200),
                ok /\ TaskExists(f, id))
    /\ UNCHANGED <<folders, nextFolderId, nextTaskId>>

(***************************************************************************)
(* Queries of the store.  A collection read without orderBy returns the    *)
(* documents by id; orderBy(field, "asc") returns them by the field, null  *)
(* first, documents of equal field by id.                                  *)
(***************************************************************************)
RECURSIVE SortById(_)
SortById(S) ==
  IF S = {} THEN <<>>
  ELSE LET m == CHOOSE x \in S : \A y \in S : x.id <= y.id
       IN <<m>> \o SortById(S \ {m})

FieldBefore(a, b, field) ==
  IF field = "end_date"
  THEN IF IsNull(a.end_date) \/ IsNull(b.end_date)
       THEN IsNull(a.end_date) /\ ~IsNull(b.end_date)
       ELSE ValueOf(a.end_date) < ValueOf(b.end_date)
  ELSE FALSE

Before(a, b, field) ==
  \/ FieldBefore(a, b, field)
  \/ ~FieldBefore(b, a, field) /\ a.id <= b.id

RECURSIVE OrderBy(_, _)
OrderBy(S, field) ==
  IF S = {} THEN <<>>
  ELSE LET m == CHOOSE x \in S : \A y \in S : Before(x, y, field)
       IN <<m>> \o OrderBy(S \ {m}, field)

\* Flat that keeps the first folder's array only.
FlatFirstOnly(docs, parts) ==
  IF docs = <<>> THEN <<>> ELSE parts[Head(docs).id]

RECURSIVE Flat(_, _)
\* taskArrays.flat(): the per-folder arrays in the order of the folder documents
Flat(docs, parts) ==
  IF docs = <<>> THEN <<>>
  ELSE parts[Head(docs).id] \o Flat(Tail(docs), parts)

Range(seq) == {seq[i] : i \in DOMAIN seq}
Ids(seq) == {seq[i].id : i \in DOMAIN seq}
Listed(o) == Ids(o.docs)

Returned(value) == [state |-> "returned", status |-> 200, value |-> value]
Threw(status) == [state |-> "threw", status |-> status, value |-> NoValue]
ListValue(list) == [NoValue EXCEPT !.isNull = FALSE, !.list = list]

(***************************************************************************)
(* TaskService.getTasksByUser over TaskRepository.getTasksByUserId, called *)
(* by TaskController.getTasksByUser.                                       *)
(***************************************************************************)
\* Enveloped with a catch that returns success: true.
EnvelopedCatchSucceeds(ret) ==
  [svc |-> "envelope", success |-> TRUE, http |-> 200]

\* The service's try/catch: the repository's value in a success envelope, its
\* exception in a failure envelope; the controller answers 200 with either.
Enveloped(ret) ==
  [svc |-> "envelope", success |-> ret.state = "returned", http |-> 200]

\* The request starts: the folder collection is read.  A failing read throws,
\* an empty collection returns null, otherwise one task read per folder
\* document is issued and the request waits for all of them.
GetTasksByUser_Folders ==
  \E ok \in BOOLEAN :
    /\ Free
    /\ LET ret == IF ~ok THEN Threw(500) ELSE Returned(NoValue)
           fin == [IdleOp EXCEPT !.kind = "getTasksByUser", !.pc = "done",
                                 !.failed = ~ok, !.ret = ret,
                                 !.resp = Enveloped(ret)]
       IN op' = IF ok /\ folders # {}
                THEN [IdleOp EXCEPT
                        !.kind = "getTasksByUser", !.pc = "fanout",
                        !.docs = SortById(folders),
                        !.branch = [f \in FolderIds |->
                                      IF FolderExists(f) THEN "pending" ELSE "none"]]
                ELSE fin
    /\ last' = NoLast
    /\ UNCHANGED store

\* GetTasksByUser_Branch with the arrays flattened as soon as one read
\* succeeded.
GetTasksByUser_BranchRacing ==
  \E f \in FolderIds, ok \in BOOLEAN :
    /\ op.kind = "getTasksByUser" /\ op.pc = "fanout"
    /\ op.branch[f] = "pending"
    /\ LET branch == [op.branch EXCEPT ![f] = IF ok THEN "ok" ELSE "failed"]
           parts == [op.parts EXCEPT ![f] = SortById(TasksOf(f))]
           allTasks == Flat(op.docs, parts)
           ret == IF ~ok THEN Threw(500)
                  ELSE IF Len(allTasks) > 0 THEN Returned(ListValue(allTasks))
                  ELSE Returned(NoValue)
       IN op' = [op EXCEPT !.pc = "done", !.branch = branch,
                           !.parts = NoParts, !.failed = ~ok,
                           !.ret = ret, !.resp = Enveloped(ret)]
    /\ UNCHANGED <<store, last>>

\* One folder's task read completes.  A failing read rejects Promise.all at
\* once: the catch of the repository throws an ApiError.  The last read to
\* succeed resolves Promise.all: the arrays are flattened, and an empty
\* result becomes null.
GetTasksByUser_Branch ==
  \E f \in FolderIds, ok \in BOOLEAN :
    /\ op.kind = "getTasksByUser" /\ op.pc = "fanout"
    /\ op.branch[f] = "pending"
    /\ LET branch == [op.branch EXCEPT ![f] = IF ok THEN "ok" ELSE "failed"]
           parts == [op.parts EXCEPT ![f] = SortById(TasksOf(f))]
           allTasks == Flat(op.docs, parts)
           ret == IF ~ok THEN Threw(500)
                  ELSE IF Len(allTasks) > 0 THEN Returned(ListValue(allTasks))
                  ELSE Returned(NoValue)
       IN op' = IF ok /\ \E g \in FolderIds : branch[g] = "pending"
                THEN [op EXCEPT !.branch = branch, !.parts = parts]
                ELSE [op EXCEPT !.pc = "done", !.branch = branch,
                                !.parts = NoParts, !.failed = ~ok,
                                !.ret = ret, !.resp = Enveloped(ret)]
    /\ UNCHANGED <<store, last>>

(***************************************************************************)
(* TaskFolderService.deleteTaskFolder over                                 *)
(* TaskFolderRepository.deleteTaskFolder, called by                        *)
(* TaskFolderController.deleteTaskFolder.  db.recursiveDelete(folderRef)   *)
(* lists the documents under the folder, deletes them one by one, deletes  *)
(* the folder document last, and rejects when any delete failed.           *)
(***************************************************************************)
\* The service's catch returns success: true as its try does, and the
\* controller answers 200 with success: true whatever the service returned.
DeleteEnveloped(ret) == [svc |-> "envelope", success |-> TRUE, http |-> 200]

\* DeleteTaskFolder_Start with a delete of the folder document alone.
DeleteTaskFolder_StartShallow ==
  \E f \in FolderIds, ok \in BOOLEAN :
    /\ Free
    /\ op' = IF ok
             THEN [IdleOp EXCEPT !.kind = "deleteTaskFolder", !.pc = "deleting",
                                 !.folderId = f]
             ELSE [IdleOp EXCEPT !.kind = "deleteTaskFolder", !.pc = "done",
                                 !.folderId = f, !.failed = TRUE,
                                 !.ret = Threw(500),
                                 !.resp = DeleteEnveloped(Threw(500))]
    /\ last' = NoLast
    /\ UNCHANGED store

\* The request starts: recursiveDelete lists the tasks of the folder.  A
\* failing listing rejects at once.
DeleteTaskFolder_Start ==
  \E f \in FolderIds, ok \in BOOLEAN :
    /\ Free
    /\ op' = IF ok
             THEN [IdleOp EXCEPT !.kind = "deleteTaskFolder", !.pc = "deleting",
                                 !.folderId = f,
                                 !.targets = {t.id : t \in TasksOf(f)},
                                 !.todo = {t.id : t \in TasksOf(f)}]
             ELSE [IdleOp EXCEPT !.kind = "deleteTaskFolder", !.pc = "done",
                                 !.folderId = f, !.failed = TRUE,
                                 !.ret = Threw(500),
                                 !.resp = DeleteEnveloped(Threw(500))]
    /\ last' = NoLast
    /\ UNCHANGED store

\* One listed task document is deleted, or its delete fails.
DeleteTaskFolder_Task ==
  \E id \in TaskIds, ok \in BOOLEAN :
    /\ op.kind = "deleteTaskFolder" /\ op.pc = "deleting"
    /\ id \in op.todo
    /\ tasks' = IF ok
                THEN {t \in tasks : ~(t.folder = op.folderId /\ t.id = id)}
                ELSE tasks
    /\ op' = [op EXCEPT !.todo = @ \ {id}, !.failed = @ \/ ~ok]
    /\ UNCHANGED <<folders, nextFolderId, nextTaskId, last>>

\* Every listed task was handled: the folder document is deleted, or its
\* delete fails, and recursiveDelete resolves, or rejects if a delete failed.
DeleteTaskFolder_Folder ==
  \E ok \in BOOLEAN :
    /\ op.kind = "deleteTaskFolder" /\ op.pc = "deleting"
    /\ op.todo = {}
    /\ folders' = IF ok THEN {d \in folders : d.id # op.folderId} ELSE folders
    /\ LET failed == op.failed \/ ~ok
           ret == IF failed THEN Threw(500) ELSE Returned(NoValue)
       IN op' = [op EXCEPT !.pc = "done", !.failed = failed, !.ret = ret,
                           !.resp = DeleteEnveloped(ret)]
    /\ UNCHANGED <<tasks, nextFolderId, nextTaskId, last>>

(***************************************************************************)
(* TaskService.getTasksInFolder over TaskRepository.getTasksByFolder,      *)
(* called by TaskController.getTasksByFolder.                              *)
(***************************************************************************)
\* BucketOf without the default case of the switch.
BucketOfNoDefault(status) ==
  LET s == ToLowerCase(status) IN
  IF s = str_pending THEN "pending"
  ELSE IF s = str_in_progress \/ s = str_in_progress_underscore THEN "inProgress"
  ELSE IF s = str_completed THEN "completed"
  ELSE "none"

\* The switch on the lower-cased status: the bucket a task is pushed to.
BucketOf(status) ==
  LET s == ToLowerCase(status) IN
  IF s = str_pending THEN "pending"
  ELSE IF s = str_in_progress \/ s = str_in_progress_underscore THEN "inProgress"
  ELSE IF s = str_completed THEN "completed"
  ELSE "pending"

\* {id: doc.id, ...doc.data(), folder_source: folderTitle}
WithSource(t, folderTitle) ==
  [id |-> t.id, folder |-> t.folder, title |-> t.title,
   description |-> t.description, status |-> t.status,
   priority |-> t.priority, start_date |-> t.start_date,
   end_date |-> t.end_date, folder_source |-> folderTitle]

\* Buckets with every document put at the front of its bucket.
BucketsUnshifting(docs, folderTitle) ==
  LET data == [i \in DOMAIN docs |-> WithSource(docs[i], folderTitle)]
      In(b) == LET sel == SelectSeq(data, LAMBDA d : BucketOf(d.status) = b)
               IN [i \in 1..Len(sel) |-> sel[Len(sel) + 1 - i]]
  IN [NoValue EXCEPT !.isNull = FALSE, !.pending = In("pending"),
                     !.inProgress = In("inProgress"),
                     !.completed = In("completed")]

\* taskSnap.docs.forEach: every document, annotated, is pushed to the bucket
\* of its status, in the order of the snapshot.
Buckets(docs, folderTitle) ==
  LET data == [i \in DOMAIN docs |-> WithSource(docs[i], folderTitle)]
      In(b) == SelectSeq(data, LAMBDA d : BucketOf(d.status) = b)
  IN [NoValue EXCEPT !.isNull = FALSE, !.pending = In("pending"),
                     !.inProgress = In("inProgress"),
                     !.completed = In("completed")]

\* folderDoc.data()?.title || "Untitled Folder"
FolderTitle(f) ==
  IF FolderDoc(f).title = "" THEN "Untitled Folder" ELSE FolderDoc(f).title

\* The service awaits the repository outside any try and returns what it
\* returns; neither the service nor the controller catches what it throws, so
\* no response is sent then.  Otherwise the controller answers 200.
PassedThrough(ret) ==
  IF ret.state = "returned"
  THEN [svc |-> "raw", success |-> TRUE, http |-> 200]
  ELSE [svc |-> "threw", success |-> FALSE, http |-> 0]

\* GetTasksByFolder_Folder without the test of folderDoc.exists.
GetTasksByFolder_FolderUnchecked ==
  \E f \in FolderIds, orderBy \in OrderFields, ok \in BOOLEAN :
    /\ Free
    /\ op' = IF ok
             THEN [IdleOp EXCEPT !.kind = "getTasksByFolder", !.pc = "tasks",
                                 !.folderId = f, !.orderBy = orderBy,
                                 !.docs = IF FolderExists(f) THEN <<FolderDoc(f)>>
                                          ELSE <<>>,
                                 !.title = IF FolderExists(f) THEN FolderTitle(f)
                                           ELSE "Untitled Folder"]
             ELSE [IdleOp EXCEPT !.kind = "getTasksByFolder", !.pc = "done",
                                 !.folderId = f, !.orderBy = orderBy,
                                 !.failed = TRUE, !.ret = Threw(500),
                                 !.resp = PassedThrough(Threw(500))]
    /\ last' = NoLast
    /\ UNCHANGED store

\* The request starts: the folder document is read.  A failing read becomes
\* an ApiError 500, a missing document an ApiError 404.
GetTasksByFolder_Folder ==
  \E f \in FolderIds, orderBy \in OrderFields, ok \in BOOLEAN :
    /\ Free
    /\ LET ret == IF ok THEN Threw(404) ELSE Threw(500) IN
       op' = IF ok /\ FolderExists(f)
             THEN [IdleOp EXCEPT !.kind = "getTasksByFolder", !.pc = "tasks",
                                 !.folderId = f, !.orderBy = orderBy,
                                 !.docs = <<FolderDoc(f)>>,
                                 !.title = FolderTitle(f)]
             ELSE [IdleOp EXCEPT !.kind = "getTasksByFolder", !.pc = "done",
                                 !.folderId = f, !.orderBy = orderBy,
                                 !.failed = ~ok, !.ret = ret,
                                 !.resp = PassedThrough(ret)]
    /\ last' = NoLast
    /\ UNCHANGED store

\* GetTasksByFolder_Tasks with the folder title looked up when the tasks
\* are distributed.
GetTasksByFolder_TasksFreshTitle ==
  \E ok \in BOOLEAN :
    /\ op.kind = "getTasksByFolder" /\ op.pc = "tasks"
    /\ LET docs == OrderBy(TasksOf(op.folderId), op.orderBy)
           title == IF FolderExists(op.folderId) THEN FolderTitle(op.folderId)
                    ELSE "Untitled Folder"
           ret == IF ok THEN Returned(Buckets(docs, title)) ELSE Threw(500)
       IN op' = [op EXCEPT !.pc = "done", !.failed = ~ok, !.ret = ret,
                           !.resp = PassedThrough(ret)]
    /\ UNCHANGED <<store, last>>

\* The ordered task read completes: the documents are distributed over the
\* three buckets (an empty snapshot gives three empty buckets); a failing
\* read becomes an ApiError 500.
GetTasksByFolder_Tasks ==
  \E ok \in BOOLEAN :
    /\ op.kind = "getTasksByFolder" /\ op.pc = "tasks"
    /\ LET docs == OrderBy(TasksOf(op.folderId), op.orderBy)
           ret == IF ok THEN Returned(Buckets(docs, op.title)) ELSE Threw(500)
       IN op' = [op EXCEPT !.pc = "done", !.failed = ~ok, !.ret = ret,
                           !.resp = PassedThrough(ret)]
    /\ UNCHANGED <<store, last>>

(***************************************************************************)
(* TaskRepository.getNearingDueTasks (its service method is not part of    *)
(* the sources; the repository's outcome is op.ret).                       *)
(***************************************************************************)
\* IsNearing with < for <= in the test against daysThreshold.
IsNearingStrict(t, now, daysThreshold) ==
  /\ t.status = str_pending \/ t.status = str_in_progress
  /\ ~IsNull(t.end_date)
  /\ ValueOf(t.end_date) - now < daysThreshold * DayUnits
  /\ ValueOf(t.end_date) - now >= 0

\* The test of one task document: an incomplete status, an end_date, and
\* 0 <= diffInDays <= daysThreshold, where diffInDays is the difference of
\* the two times divided by the length of a day.
IsNearing(t, now, daysThreshold) ==
  /\ t.status = str_pending \/ t.status = str_in_progress
  /\ ~IsNull(t.end_date)
  /\ ValueOf(t.end_date) - now <= daysThreshold * DayUnits
  /\ ValueOf(t.end_date) - now >= 0

\* The object pushed to nearingTasks.
NearingItem(t, folderDoc) ==
  [id |-> t.id, task_folder_id |-> folderDoc.id, title |-> t.title,
   description |-> t.description, status |-> t.status,
   priority |-> t.priority, start_date |-> t.start_date,
   end_date |-> t.end_date, folder_source |-> folderDoc.title]

\* tasksSnap.docs.forEach of one folder: the objects it pushes, in the order
\* of the snapshot.
NearingOf(folderDoc, now, daysThreshold) ==
  LET docs == OrderBy(TasksOf(folderDoc.id), "end_date")
      near == SelectSeq(docs, LAMBDA t : IsNearing(t, now, daysThreshold))
  IN [i \in DOMAIN near |-> NearingItem(near[i], folderDoc)]

\* The request starts: the folder collection is read (a failing read throws
\* the store's error), an empty collection returns [], otherwise the clock
\* is read and one ordered task read per folder document is issued.
GetNearingDueTasks_Folders ==
  \E ok \in BOOLEAN, now \in NowValues, daysThreshold \in ThresholdInputs :
    /\ Free
    /\ LET ret == IF ok THEN Returned(ListValue(<<>>)) ELSE Threw(0) IN
       op' = IF ok /\ folders # {}
             THEN [IdleOp EXCEPT
                     !.kind = "getNearingDueTasks", !.pc = "fanout",
                     !.now = now, !.threshold = daysThreshold,
                     !.docs = SortById(folders),
                     !.branch = [f \in FolderIds |->
                                   IF FolderExists(f) THEN "pending" ELSE "none"]]
             ELSE [IdleOp EXCEPT !.kind = "getNearingDueTasks", !.pc = "done",
                                 !.failed = ~ok, !.ret = ret]
    /\ last' = NoLast
    /\ UNCHANGED store

\* One folder's task read completes: its nearing tasks are pushed to the
\* shared array.  A failing read rejects Promise.all at once; the last read
\* to succeed resolves it and the array is returned.
GetNearingDueTasks_Branch ==
  \E f \in FolderIds, ok \in BOOLEAN :
    /\ op.kind = "getNearingDueTasks" /\ op.pc = "fanout"
    /\ op.branch[f] = "pending"
    /\ LET branch == [op.branch EXCEPT ![f] = IF ok THEN "ok" ELSE "failed"]
           folderDoc == CHOOSE d \in Range(op.docs) : d.id = f
           acc == op.acc \o NearingOf(folderDoc, op.now, op.threshold)
       IN op' = IF ~ok
                THEN [op EXCEPT !.pc = "done", !.branch = branch, !.acc = <<>>,
                                !.failed = TRUE, !.ret = Threw(0)]
                ELSE IF \E g \in FolderIds : branch[g] = "pending"
                THEN [op EXCEPT !.branch = branch, !.acc = acc]
                ELSE [op EXCEPT !.pc = "done", !.branch = branch, !.acc = <<>>,
                                !.ret = Returned(ListValue(acc))]
    /\ UNCHANGED <<store, last>>

(***************************************************************************)
(* TaskFolderService.getTaskFoldersOfUser over                             *)
(* TaskFolderRepository.getTaskFoldersByUserId, called by                  *)
(* TaskFolderController.getTaskFolders.                                    *)
(***************************************************************************)
\* tasksSnap.docs.filter(doc => doc.data().status === "completed").length
CompletedTasksCount(S) == Cardinality({t \in S : t.status = str_completed})

\* The folder document with its two counters.
FolderWithStats(folderDoc) ==
  [id |-> folderDoc.id, title |-> folderDoc.title,
   description |-> folderDoc.description,
   totalTasks |-> Cardinality(TasksOf(folderDoc.id)),
   completedTasksCount |-> CompletedTasksCount(TasksOf(folderDoc.id))]

\* GetTaskFolders_Folders with an empty collection treated as an error.
GetTaskFolders_FoldersEmptyThrows ==
  \E ok \in BOOLEAN :
    /\ Free
    /\ LET fin == [IdleOp EXCEPT !.kind = "getTaskFolders", !.pc = "done",
                                 !.failed = ~ok, !.ret = Threw(0),
                                 !.resp = Enveloped(Threw(0))]
       IN op' = IF ok /\ folders # {}
                THEN [IdleOp EXCEPT
                        !.kind = "getTaskFolders", !.pc = "fanout",
                        !.docs = SortById(folders),
                        !.branch = [f \in FolderIds |->
                                      IF FolderExists(f) THEN "pending" ELSE "none"]]
                ELSE fin
    /\ last' = NoLast
    /\ UNCHANGED store

\* The request starts: the folder collection is read (outside any try of the
\* repository; the service catches).  An empty collection returns null.
GetTaskFolders_Folders ==
  \E ok \in BOOLEAN :
    /\ Free
    /\ LET ret == IF ~ok THEN Threw(0) ELSE Returned(NoValue)
           fin == [IdleOp EXCEPT !.kind = "getTaskFolders", !.pc = "done",
                                 !.failed = ~ok, !.ret = ret,
                                 !.resp = Enveloped(ret)]
       IN op' = IF ok /\ folders # {}
                THEN [IdleOp EXCEPT
                        !.kind = "getTaskFolders", !.pc = "fanout",
                        !.docs = SortById(folders),
                        !.branch = [f \in FolderIds |->
                                      IF FolderExists(f) THEN "pending" ELSE "none"]]
                ELSE fin
    /\ last' = NoLast
    /\ UNCHANGED store

\* One folder's task read completes and its counters are computed.  A failing
\* read rejects Promise.all at once; the last read to succeed resolves it
\* with the folders in the order of the folder documents.
GetTaskFolders_Branch ==
  \E f \in FolderIds, ok \in BOOLEAN :
    /\ op.kind = "getTaskFolders" /\ op.pc = "fanout"
    /\ op.branch[f] = "pending"
    /\ LET branch == [op.branch EXCEPT ![f] = IF ok THEN "ok" ELSE "failed"]
           folderDoc == CHOOSE d \in Range(op.docs) : d.id = f
           parts == [op.parts EXCEPT ![f] = <<FolderWithStats(folderDoc)>>]
           ret == IF ~ok THEN Threw(0)
                  ELSE Returned(ListValue(Flat(op.docs, parts)))
       IN op' = IF ok /\ \E g \in FolderIds : branch[g] = "pending"
                THEN [op EXCEPT !.branch = branch, !.parts = parts]
                ELSE [op EXCEPT !.pc = "done", !.branch = branch,
                                !.parts = NoParts, !.failed = ~ok,
                                !.ret = ret, !.resp = Enveloped(ret)]
    /\ UNCHANGED <<store, last>>

(***************************************************************************)
(* TaskService.getTasksByDate and TaskService.getTasksByDateInFolder, over *)
(* TaskRepository.getTasksByUserId and TaskRepository.getTasksByFolder.    *)
(***************************************************************************)
\* Date.prototype.toDateString(): the calendar day of a time.
ToDateString(at) == at \div DayUnits

\* (task.start_date as Timestamp).toDate(): the cast checks nothing.  The
\* stored value is the JSON value a request body carried (null, or a number
\* or string: create-task and update-task store taskDetails as they are),
\* and none of these has a toDate method; only a Firestore Timestamp has.
HasToDate(value) == FALSE

\* tasks.filter(t => t.start_date.toDate().toDateString() === target): the
\* first element without toDate throws a TypeError.
FilterByDate(list, target) ==
  IF \E i \in DOMAIN list : ~HasToDate(list[i].start_date)
  THEN [threw |-> TRUE, list |-> <<>>]
  ELSE [threw |-> FALSE,
        list |-> SelectSeq(list, LAMBDA t :
                   ToDateString(ValueOf(t.start_date)) = target)]

\* The try of getTasksByDate after the repository returned: date.toDateString
\* is a TypeError unless date is a Date; response?.filter is undefined for a
\* null response.  The payload of the envelope, or threw.
TasksOfDate(value, date) ==
  IF ~date.isDate THEN [threw |-> TRUE, out |-> NoValue]
  ELSE IF value.isNull THEN [threw |-> FALSE, out |-> NoValue]
  ELSE LET filtered == FilterByDate(value.list, ToDateString(date.at))
       IN [threw |-> filtered.threw, out |-> ListValue(filtered.list)]

\* The try of getTasksByDateInFolder after the repository returned: the three
\* buckets are filtered one after the other.
BucketsOfDate(value, date) ==
  LET target == ToDateString(date.at)
      p == FilterByDate(value.pending, target)
      i == FilterByDate(value.inProgress, target)
      c == FilterByDate(value.completed, target)
  IN [threw |-> ~date.isDate \/ p.threw \/ i.threw \/ c.threw,
      out |-> [NoValue EXCEPT !.isNull = FALSE, !.pending = p.list,
                              !.inProgress = i.list, !.completed = c.list]]

\* The catch of either service method returns success: false; the
\* controller answers 200 with the envelope.
ByDateEnveloped(ret, filtered) ==
  [svc |-> "envelope",
   success |-> ret.state = "returned" /\ ~filtered.threw, http |-> 200]

\* The payload of the envelope: the filtered value when the call succeeded.
ByDateOut(ret, filtered) ==
  IF ret.state = "returned" /\ ~filtered.threw THEN filtered.out ELSE NoValue

\* getTasksByDate starts: getTasksByUserId reads the folder collection.
GetTasksByDate_Folders ==
  \E date \in ByDateArgs, ok \in BOOLEAN :
    /\ Free
    /\ LET ret == IF ~ok THEN Threw(500) ELSE Returned(NoValue)
           filtered == TasksOfDate(ret.value, date)
           fin == [IdleOp EXCEPT !.kind = "getTasksByDate", !.pc = "done",
                                 !.date = date, !.failed = ~ok, !.ret = ret,
                                 !.resp = ByDateEnveloped(ret, filtered),
                                 !.out = ByDateOut(ret, filtered)]
       IN op' = IF ok /\ folders # {}
                THEN [IdleOp EXCEPT
                        !.kind = "getTasksByDate", !.pc = "fanout",
                        !.date = date, !.docs = SortById(folders),
                        !.branch = [f \in FolderIds |->
                                      IF FolderExists(f) THEN "pending" ELSE "none"]]
                ELSE fin
    /\ last' = NoLast
    /\ UNCHANGED store

\* One folder's task read of getTasksByUserId completes; when the repository
\* returns, the service filters its result.
GetTasksByDate_Branch ==
  \E f \in FolderIds, ok \in BOOLEAN :
    /\ op.kind = "getTasksByDate" /\ op.pc = "fanout"
    /\ op.branch[f] = "pending"
    /\ LET branch == [op.branch EXCEPT ![f] = IF ok THEN "ok" ELSE "failed"]
           parts == [op.parts EXCEPT ![f] = SortById(TasksOf(f))]
           allTasks == Flat(op.docs, parts)
           ret == IF ~ok THEN Threw(500)
                  ELSE IF Len(allTasks) > 0 THEN Returned(ListValue(allTasks))
                  ELSE Returned(NoValue)
           filtered == TasksOfDate(ret.value, op.date)
       IN op' = IF ok /\ \E g \in FolderIds : branch[g] = "pending"
                THEN [op EXCEPT !.branch = branch, !.parts = parts]
                ELSE [op EXCEPT !.pc = "done", !.branch = branch,
                                !.parts = NoParts, !.failed = ~ok, !.ret = ret,
                                !.resp = ByDateEnveloped(ret, filtered),
                                !.out = ByDateOut(ret, filtered)]
    /\ UNCHANGED <<store, last>>

\* getTasksByDateInFolder starts: getTasksByFolder reads the folder document.
GetTasksByDateInFolder_Folder ==
  \E f \in FolderIds, orderBy \in OrderFields, date \in ByDateInFolderArgs,
     ok \in BOOLEAN :
    /\ Free
    /\ LET ret == IF ok THEN Threw(404) ELSE Threw(500) IN
       op' = IF ok /\ FolderExists(f)
             THEN [IdleOp EXCEPT !.kind = "getTasksByDateInFolder",
                                 !.pc = "tasks", !.date = date,
                                 !.folderId = f, !.orderBy = orderBy,
                                 !.title = FolderTitle(f)]
             ELSE [IdleOp EXCEPT !.kind = "getTasksByDateInFolder",
                                 !.pc = "done", !.date = date,
                                 !.folderId = f, !.orderBy = orderBy,
                                 !.failed = ~ok, !.ret = ret,
                                 !.resp = ByDateEnveloped(ret, [threw |-> FALSE])]
    /\ last' = NoLast
    /\ UNCHANGED store

\* The ordered task read of getTasksByFolder completes and the service
\* filters the three buckets.
GetTasksByDateInFolder_Tasks ==
  \E ok \in BOOLEAN :
    /\ op.kind = "getTasksByDateInFolder" /\ op.pc = "tasks"
    /\ LET docs == OrderBy(TasksOf(op.folderId), op.orderBy)
           ret == IF ok THEN Returned(Buckets(docs, op.title)) ELSE Threw(500)
           filtered == BucketsOfDate(ret.value, op.date)
       IN op' = [op EXCEPT !.pc = "done", !.failed = ~ok, !.ret = ret,
                           !.resp = ByDateEnveloped(ret, filtered),
                           !.out = ByDateOut(ret, filtered)]
    /\ UNCHANGED <<store, last>>

(***************************************************************************)
(* TaskFolderRepository.getTaskFolderByTaskFolderId (no service method     *)
(* calls it; the repository's outcome is op.ret).                          *)
(***************************************************************************)
\* GetTaskFolder with the folder document written when it does not exist.
GetTaskFolderCreating ==
  \E f \in FolderIds, ok \in BOOLEAN :
    /\ Free
    /\ folders' = IF ok /\ ~FolderExists(f)
                  THEN folders \cup {[id |-> f, title |-> "", description |-> ""]}
                  ELSE folders
    /\ LET ret == IF ~ok THEN Threw(0)
                  ELSE IF FolderExists(f)
                  THEN Returned(ListValue(<<FolderData(FolderDoc(f))>>))
                  ELSE Returned(NoValue)
       IN op' = [IdleOp EXCEPT !.kind = "getTaskFolder", !.pc = "done",
                               !.folderId = f, !.failed = ~ok, !.ret = ret]
    /\ last' = NoLast
    /\ UNCHANGED <<tasks, nextFolderId, nextTaskId>>

\* The point read of a folder document: its data(), or null when it does not
\* exist.
GetTaskFolder ==
  \E f \in FolderIds, ok \in BOOLEAN :
    /\ Free
    /\ LET ret == IF ~ok THEN Threw(0)
                  ELSE IF FolderExists(f)
                  THEN Returned(ListValue(<<FolderData(FolderDoc(f))>>))
                  ELSE Returned(NoValue)
       IN op' = [IdleOp EXCEPT !.kind = "getTaskFolder", !.pc = "done",
                               !.folderId = f, !.failed = ~ok, !.ret = ret]
    /\ last' = NoLast
    /\ UNCHANGED store

(***************************************************************************)
(* TaskRepository.getTaskByTaskId (no service method calls it; the         *)
(* repository's outcome is op.ret).                                        *)
(***************************************************************************)
\* taskDoc.data(): the fields of a task document, without its id.
TaskData(t) ==
  [title |-> t.title, description |-> t.description, status |-> t.status,
   priority |-> t.priority, start_date |-> t.start_date,
   end_date |-> t.end_date]

\* The point read of a task document: its data(), or null when it does not
\* exist.
GetTask ==
  \E f \in FolderIds, id \in TaskIds, ok \in BOOLEAN :
    /\ Free
    /\ LET ret == IF ~ok THEN Threw(0)
                  ELSE IF TaskExists(f, id)
                  THEN Returned(ListValue(<<TaskData(TaskDoc(f, id))>>))
                  ELSE Returned(NoValue)
       IN op' = [IdleOp EXCEPT !.kind = "getTask", !.pc = "done",
                               !.folderId = f, !.failed = ~ok, !.ret = ret]
    /\ last' = NoLast
    /\ UNCHANGED store

(***************************************************************************)
(* create-task-folder as the two store calls it makes, with the requests   *)
(* that may run between them.  CreateTaskFolder above is the request with  *)
(* nothing running between its add() and its get().                        *)
(***************************************************************************)
\* add(taskFolder): the document is written under a generated id, or the
\* call fails and the catch of the repository throws an ApiError 500.
CreateTaskFolder_Add ==
  \E title \in FolderTitleInputs, description \in FolderDescriptionInputs,
     ok \in BOOLEAN :
    /\ Free
    /\ nextFolderId <= MaxFolders
    /\ folders' = IF ok
                  THEN folders \cup {[id |-> nextFolderId, title |-> title,
                                      description |-> description]}
                  ELSE folders
    /\ nextFolderId' = IF ok THEN nextFolderId + 1 ELSE nextFolderId
    /\ op' = IF ok
             THEN [IdleOp EXCEPT !.kind = "createTaskFolder", !.pc = "get",
                                 !.folderId = nextFolderId]
             ELSE [IdleOp EXCEPT !.kind = "createTaskFolder", !.pc = "done",
                                 !.folderId = nextFolderId, !.failed = TRUE,
                                 !.ret = Threw(500),
                                 !.resp = Enveloped(Threw(500))]
    /\ last' = NoLast
    /\ UNCHANGED <<tasks, nextTaskId>>

\* CreateTaskFolder_Get without the test of snapshot.exists.
CreateTaskFolder_GetUnchecked ==
  \E ok \in BOOLEAN :
    /\ op.kind = "createTaskFolder" /\ op.pc = "get"
    /\ LET data == IF FolderExists(op.folderId)
                   THEN FolderData(FolderDoc(op.folderId))
                   ELSE [title |-> "", description |-> ""]
           ret == IF ~ok THEN Threw(500)
                  ELSE Returned(ListValue(<<NewTaskFolder(op.folderId, data)>>))
       IN op' = [op EXCEPT !.pc = "done", !.failed = ~ok, !.ret = ret,
                           !.resp = Enveloped(ret)]
    /\ UNCHANGED <<store, last>>

\* folderRef.get(): a failing read becomes an ApiError 500, a snapshot that
\* does not exist an ApiError 400; otherwise the id and the data read are
\* returned.  The service turns an exception into success = false and the
\* controller answers 200 with the envelope.
CreateTaskFolder_Get ==
  \E ok \in BOOLEAN :
    /\ op.kind = "createTaskFolder" /\ op.pc = "get"
    /\ LET ret == IF ~ok THEN Threw(500)
                  ELSE IF ~FolderExists(op.folderId) THEN Threw(400)
                  ELSE Returned(ListValue(
                         <<NewTaskFolder(op.folderId,
                                         FolderData(FolderDoc(op.folderId)))>>))
       IN op' = [op EXCEPT !.pc = "done", !.failed = ~ok, !.ret = ret,
                           !.resp = Enveloped(ret)]
    /\ UNCHANGED <<store, last>>

\* DELETE delete-task-folder of a folder that holds no task, as one store
\* call: recursiveDelete lists nothing and deletes the folder document.
DeleteEmptyTaskFolder ==
  \E f \in FolderIds, ok \in BOOLEAN :
    /\ TasksOf(f) = {}
    /\ folders' = IF ok THEN {d \in folders : d.id # f} ELSE folders
    /\ Answered(Outcome("deleteTaskFolder", ~ok, "envelope", TRUE, 200),
                ok /\ FolderExists(f))
    /\ UNCHANGED <<tasks, nextFolderId, nextTaskId>>

(***************************************************************************)
(* The router.  A path is the sequence of its segments; the routes are     *)
(* tried in the order of their registration and the first whose method and *)
(* path match handles the request (no handler calls next()).               *)
(***************************************************************************)
Methods == {"GET", "POST", "PUT", "DELETE"}

\* The segments of the request paths of the model: those of the fetch-tasks
\* routes, a folder id, and one of a route of each other method.
PathSegments ==
  {"fetch-tasks", "all", "date", "folder", "f1", "create-task", "update-task",
   "delete-task"}

\* A segment of a route path that is a parameter: it matches any segment.
ParamSegments == {":folderId"}

Route(method, path, handler) ==
  [method |-> method, path |-> path, handler |-> handler]

\* The routes in the order of their registration.
Routes ==
  <<Route("POST", <<"create-task-folder">>, "createTaskFolder"),
    Route("GET", <<"get-task-folders">>, "getTaskFolders"),
    Route("PUT", <<"update-task-folder">>, "updateTaskFolder"),
    Route("DELETE", <<"delete-task-folder">>, "deleteTaskFolder"),
    Route("POST", <<"create-task">>, "createTask"),
    Route("GET", <<"fetch-tasks", "all">>, "getTasksByUser"),
    Route("GET", <<"fetch-tasks", "date">>, "getTasksByDate"),
    Route("GET", <<"fetch-tasks", "folder", ":folderId">>, "getTasksByFolder"),
    Route("GET", <<"fetch-tasks", "folder", "date">>, "getTasksByDateInFolder"),
    Route("PUT", <<"update-task">>, "updateTask"),
    Route("DELETE", <<"delete-task">>, "deleteTask")>>

\* The route path matches the request path: as many segments, each equal or
\* a parameter.
Matches(pattern, path) ==
  /\ Len(pattern) = Len(path)
  /\ \A i \in DOMAIN pattern :
       pattern[i] \in ParamSegments \/ pattern[i] = path[i]

\* The routes that match the request.
Hits(method, path) ==
  {i \in DOMAIN Routes :
     Routes[i].method = method /\ Matches(Routes[i].path, path)}

\* The handler the request is dispatched to: that of the first route that
\* matches, none (404) when no route does.
Dispatch(method, path) ==
  IF Hits(method, path) = {} THEN "none"
  ELSE Routes[CHOOSE i \in Hits(method, path) :
                \A j \in Hits(method, path) : i <= j].handler

\* The request paths of at most MaxSegments segments.
RequestPaths ==
  UNION {[1..n -> PathSegments] : n \in 1..MaxSegments}

\* The router dispatches the request.
RouteRequest ==
  /\ op.kind = "request" /\ op.pc = "routing"
  /\ op' = [op EXCEPT !.pc = "done", !.handler = Dispatch(op.method, op.path)]
  /\ UNCHANGED <<store, last>>

(***************************************************************************)
(* Stores the requests can have built: the folders and tasks are drawn     *)
(* from bounded sets.  Ids below nextFolderId / nextTaskId were generated  *)
(* (their documents may have been deleted since); a task may lie under a   *)
(* folder path whose document does not exist.  With anySubset = FALSE the  *)
(* folder documents that exist are those of the ids 1..k for some k.       *)
(***************************************************************************)
FolderSets(n, anySubset) ==
  IF anySubset THEN SUBSET (1..n) ELSE {1..k : k \in 0..n}

DrawnStore(NextFolderIds, anySubset, NextTaskIds, Titles, Statuses, EndDates) ==
  /\ nextFolderId \in NextFolderIds
  /\ nextTaskId \in NextTaskIds
  /\ \E fs \in FolderSets(nextFolderId - 1, anySubset) : \E tl \in [fs -> Titles] :
       folders = {[id |-> f, title |-> tl[f], description |-> "about"] : f \in fs}
  /\ \E ts \in SUBSET (1..(nextTaskId - 1)) :
       \E a \in [ts -> FolderIds \X Statuses \X EndDates] :
         tasks = {[id |-> i, folder |-> a[i][1], title |-> Some("text"),
                   description |-> Some("text"), status |-> a[i][2],
                   priority |-> "High", start_date |-> Some(20),
                   end_date |-> a[i][3]] : i \in ts}
  /\ op = IdleOp
  /\ last = NoLast

\* listAllTasksForUser over every store.
InitAllTasks ==
  DrawnStore({MaxFolders + 1}, TRUE, {MaxTasks + 1}, {"Work"}, {str_Pending},
             {JsNull})

NextAllTasks ==
  \/ GetTasksByUser_Folders
  \/ GetTasksByUser_Branch

SpecAllTasks == InitAllTasks /\ [][NextAllTasks]_vars

\* listTasksInFolder over every store and every stored status string.
InitFolder ==
  DrawnStore({MaxFolders + 1}, FALSE, {MaxTasks + 1}, {"Work"}, StatusValues,
             {JsNull})

NextFolder ==
  \/ GetTasksByFolder_Folder
  \/ GetTasksByFolder_Tasks

SpecFolder == InitFolder /\ [][NextFolder]_vars

\* nearingDueTasks over every store of tasks with any of the statuses below
\* and any of NearingEndDates.
NearingStatuses == {str_pending, str_in_progress, str_completed}

InitNearing ==
  DrawnStore({MaxFolders + 1}, FALSE, {MaxTasks + 1}, {"Work"},
             NearingStatuses, NearingEndDates)

NextNearing ==
  \/ GetNearingDueTasks_Folders
  \/ GetNearingDueTasks_Branch

SpecNearing == InitNearing /\ [][NextNearing]_vars

\* deleteFolder over every store, with create-task requests racing it.
InitDelete ==
  DrawnStore(1..(MaxFolders + 1), TRUE, 1..(MaxTasks + 1), {"Work"},
             {str_Pending}, {JsNull})

NextDelete ==
  \/ DeleteTaskFolder_Start
  \/ DeleteTaskFolder_Task
  \/ DeleteTaskFolder_Folder
  \/ CreateTask

SpecDelete == InitDelete /\ [][NextDelete]_vars

\* listFolders over every store of tasks with any of the statuses below.
StatsStatuses == {str_completed, str_Completed, str_Pending}

InitStats ==
  DrawnStore({MaxFolders + 1}, FALSE, {MaxTasks + 1}, {"Work"}, StatsStatuses,
             {JsNull})

NextStats ==
  \/ GetTaskFolders_Folders
  \/ GetTaskFolders_Branch

SpecStats == InitStats /\ [][NextStats]_vars

\* tasksByDate and tasksByDateInFolder over every store; the start dates of
\* the tasks are the JSON values create-task stored.
InitByDate ==
  DrawnStore({MaxFolders + 1}, FALSE, {MaxTasks + 1}, {"Work"},
             {str_Pending, str_Completed}, {JsNull})

NextByDate ==
  \/ GetTasksByDate_Folders
  \/ GetTasksByDate_Branch
  \/ GetTasksByDateInFolder_Folder
  \/ GetTasksByDateInFolder_Tasks

SpecByDate == InitByDate /\ [][NextByDate]_vars

\* createFolder, updateFolder and getFolder over every store of folders.
InitRoundTrip ==
  DrawnStore(1..(MaxFolders + 1), TRUE, {1}, FolderTitleInputs, {str_Pending},
             {JsNull})

NextRoundTrip ==
  \/ CreateTaskFolder
  \/ UpdateTaskFolder
  \/ GetTaskFolder

SpecRoundTrip == InitRoundTrip /\ [][NextRoundTrip]_vars

\* create-task and update-task requests with any of DateInputs as start_date
\* and end_date, from the empty store.
CreateTaskDates ==
  CreateTaskOf({Some("text")}, {Some("text")}, {str_Pending}, {"High"},
               DateInputs, DateInputs)

UpdateTaskDates ==
  UpdateTaskOf(DetailsOf({}, {}, {}, {}, DateInputs, DateInputs))

NextDates ==
  \/ CreateTaskDates
  \/ UpdateTaskDates

SpecDates == Init /\ [][NextDates]_vars

\* create-task and update-task requests with any of EnumStatusInputs as
\* status and any of EnumPriorityInputs as priority, from the empty store.
CreateTaskEnums ==
  CreateTaskOf({Some("text")}, {Some("text")}, EnumStatusInputs,
               EnumPriorityInputs, {JsNull}, {JsNull})

UpdateTaskEnums ==
  UpdateTaskOf(DetailsOf({}, {}, EnumStatusInputs, EnumPriorityInputs, {}, {}))

NextEnums ==
  \/ CreateTaskEnums
  \/ UpdateTaskEnums

SpecEnums == Init /\ [][NextEnums]_vars

\* create-task and update-task requests with any of AnyTextInputs as title
\* and description, from the empty store.
CreateTaskTexts ==
  CreateTaskOf(AnyTextInputs, AnyTextInputs, {str_Pending}, {"High"},
               {JsNull}, {JsNull})

UpdateTaskTexts ==
  UpdateTaskOf(DetailsOf(AnyTextInputs, AnyTextInputs, {}, {}, {}, {}))

NextTexts ==
  \/ CreateTaskTexts
  \/ UpdateTaskTexts

SpecTexts == Init /\ [][NextTexts]_vars

\* Folder and task writes with folder deletes, from the empty store.
NextOrphans ==
  \/ CreateTaskFolder
  \/ CreateTask
  \/ UpdateTask
  \/ DeleteTask
  \/ DeleteTaskFolder_Start
  \/ DeleteTaskFolder_Task
  \/ DeleteTaskFolder_Folder

SpecOrphans == Init /\ [][NextOrphans]_vars

\* update-task-folder and update-task requests over a store of MaxTasks
\* tasks spread over the folder paths, the folder documents of the ids 1..k
\* existing for some k.
InitMerge ==
  /\ nextFolderId = MaxFolders + 1
  /\ nextTaskId = MaxTasks + 1
  /\ \E k \in 0..MaxFolders :
       folders = {[id |-> f, title |-> "Work", description |-> "about"] :
                    f \in 1..k}
  /\ tasks = {[id |-> i, folder |-> ((i - 1) % MaxFolders) + 1,
               title |-> Some("text"), description |-> Some("text"),
               status |-> str_Pending, priority |-> "High",
               start_date |-> Some(20), end_date |-> JsNull] : i \in TaskIds}
  /\ op = IdleOp
  /\ last = NoLast

UpdateTaskFolderMerge ==
  UpdateTaskFolderAs(FolderDetailsOf(MergeFolderTitleInputs, {}), TRUE)

UpdateTaskMerge ==
  UpdateTaskAs(DetailsOf({}, {}, MergeStatusInputs, {}, {}, MergeEndDateInputs),
               TRUE)

NextMerge ==
  \/ UpdateTaskFolderMerge
  \/ UpdateTaskMerge

SpecMerge == InitMerge /\ [][NextMerge]_vars

\* The three scans over all folders of the user, over every store of tasks
\* with any of the statuses and end dates below.
ScanStatuses == {str_pending, str_completed}
ScanEndDates == {JsNull, Some(20)}

InitScans ==
  DrawnStore({MaxFolders + 1}, FALSE, {MaxTasks + 1}, {"Work"}, ScanStatuses,
             ScanEndDates)

NextScans ==
  \/ GetTasksByUser_Folders
  \/ GetTasksByUser_Branch
  \/ GetNearingDueTasks_Folders
  \/ GetNearingDueTasks_Branch
  \/ GetTaskFolders_Folders
  \/ GetTaskFolders_Branch

SpecScans == InitScans /\ [][NextScans]_vars

\* listTasksInFolder and nearingDueTasks with update-task-folder requests
\* running between their store reads, over every store of nearing tasks and
\* every folder title.
InitSource ==
  DrawnStore({MaxFolders + 1}, FALSE, {MaxTasks + 1}, FolderTitleInputs,
             {str_pending}, {Some(20)})

NextSource ==
  \/ GetTasksByFolder_Folder
  \/ GetTasksByFolder_Tasks
  \/ GetNearingDueTasks_Folders
  \/ GetNearingDueTasks_Branch
  \/ UpdateTaskFolder

SpecSource == InitSource /\ [][NextSource]_vars

\* update-task requests whose title and description are omitted, null or a
\* text, over the stores of InitMerge.
UpdateTaskNullOmitted ==
  UpdateTaskAs(DetailsOf(TextInputs, TextInputs, MergeStatusInputs, {}, {}, {}),
               TRUE)

NextNullOmitted ==
  \/ UpdateTaskNullOmitted

SpecNullOmitted == InitMerge /\ [][NextNullOmitted]_vars

\* Every read operation of the two repositories, over every store.
InitReads ==
  DrawnStore({MaxFolders + 1}, FALSE, {MaxTasks + 1}, {"Work"}, {str_pending},
             {Some(20)})

NextReads ==
  \/ GetTaskFolders_Folders
  \/ GetTaskFolders_Branch
  \/ GetTaskFolder
  \/ GetTasksByUser_Folders
  \/ GetTasksByUser_Branch
  \/ GetTasksByFolder_Folder
  \/ GetTasksByFolder_Tasks
  \/ GetTask
  \/ GetTasksByDate_Folders
  \/ GetTasksByDate_Branch
  \/ GetTasksByDateInFolder_Folder
  \/ GetTasksByDateInFolder_Tasks
  \/ GetNearingDueTasks_Folders
  \/ GetNearingDueTasks_Branch

SpecReads == InitReads /\ [][NextReads]_vars

\* listTasksInFolder over every store of tasks with any of the statuses and
\* end dates below.
OrderedStatuses == {str_Pending, str_Completed}
OrderedEndDates == {JsNull, Some(20), Some(22)}

InitOrdered ==
  DrawnStore({MaxFolders + 1}, FALSE, {MaxTasks + 1}, {"Work"},
             OrderedStatuses, OrderedEndDates)

NextOrdered ==
  \/ GetTasksByFolder_Folder
  \/ GetTasksByFolder_Tasks

SpecOrdered == InitOrdered /\ [][NextOrdered]_vars

\* A request of any method and path has arrived at the router.
InitRouting ==
  /\ folders = {}
  /\ tasks = {}
  /\ nextFolderId = 1
  /\ nextTaskId = 1
  /\ \E method \in Methods, path \in RequestPaths :
       op = [IdleOp EXCEPT !.kind = "request", !.pc = "routing",
                           !.method = method, !.path = path]
  /\ last = NoLast

NextRouting ==
  \/ RouteRequest

SpecRouting == InitRouting /\ [][NextRouting]_vars

\* create-task-folder requests with update-task-folder and
\* delete-task-folder requests running between their two store calls, from
\* the empty store.
NextCreateFolder ==
  \/ CreateTaskFolder_Add
  \/ CreateTaskFolder_Get
  \/ UpdateTaskFolder
  \/ DeleteEmptyTaskFolder

SpecCreateFolder == Init /\ [][NextCreateFolder]_vars

Next ==
  \/ GetTasksByUser_Folders
  \/ GetTasksByUser_Branch
  \/ GetTasksByFolder_Folder
  \/ GetTasksByFolder_Tasks
  \/ GetNearingDueTasks_Folders
  \/ GetNearingDueTasks_Branch
  \/ DeleteTaskFolder_Start
  \/ DeleteTaskFolder_Task
  \/ DeleteTaskFolder_Folder
  \/ CreateTaskFolder
  \/ UpdateTaskFolder
  \/ CreateTask
  \/ UpdateTask
  \/ DeleteTask

Spec == Init /\ [][Next]_vars

(***************************************************************************)
(* Properties.                                                             *)
(***************************************************************************)
\* The number of elements of seq with the given id.
Occurrences(id, seq) == Cardinality({i \in DOMAIN seq : seq[i].id = id})

Done(kind) == op.kind = kind /\ op.pc = "done"
Succeeded(kind) == Done(kind) /\ op.ret.state = "returned"

\* The three buckets of a listing, one after the other.
AllBuckets(v) == v.pending \o v.inProgress \o v.completed

RECURSIVE TrimEnd(_)
TrimEnd(s) ==
  IF s # <<>> /\ s[Len(s)] = " " THEN TrimEnd(SubSeq(s, 1, Len(s) - 1)) ELSE s

RECURSIVE TrimStart(_)
TrimStart(s) == IF s # <<>> /\ Head(s) = " " THEN TrimStart(Tail(s)) ELSE s

\* The bucket the documentation gives a status: trimmed, any letter case.
DocumentedBucket(status) ==
  LET s == ToLowerCase(TrimStart(TrimEnd(status))) IN
  IF s = str_completed THEN "completed"
  ELSE IF s = str_in_progress \/ s = str_in_progress_underscore THEN "inProgress"
  ELSE "pending"

BucketIds(v, b) ==
  IF b = "completed" THEN Ids(v.completed)
  ELSE IF b = "inProgress" THEN Ids(v.inProgress)
  ELSE Ids(v.pending)

\* C2: getTasksByFolder places a task with status "Completed", "completed" or
\* "COMPLETED " (trimmed) in completed, "pending" in any letter case in
\* pending, "in progress" and "in_progress" in any letter case in
\* inProgress, and any other status in pending.
C2_DocumentedNormalization ==
  (Succeeded("getTasksByFolder") /\ ~op.dirty) =>
    \A t \in TasksOf(op.folderId) :
      t.id \in BucketIds(op.ret.value, DocumentedBucket(t.status))

\* C3: if the task read of one folder fails in getTasksByUserId, the folder
\* holding tasks or none, the repository throws and the service returns
\* success = false; a success envelope means every listed folder was read.
C3_BranchFailureFailsCall ==
  Done("getTasksByUser") =>
    /\ (\E f \in FolderIds : op.branch[f] = "failed") =>
         /\ op.ret.state = "threw"
         /\ op.resp.svc = "envelope" /\ ~op.resp.success
    /\ op.resp.success =>
         \A f \in FolderIds : op.branch[f] \in {"none", "ok"}

\* The read of a folder without tasks failed while another folder holds
\* tasks, and the service answered success = false.
C3_Witness ==
  /\ Done("getTasksByUser")
  /\ \E f \in FolderIds :
       /\ op.branch[f] = "failed" /\ TasksOf(f) = {}
       /\ \E g \in FolderIds : FolderExists(g) /\ TasksOf(g) # {}
  /\ ~op.resp.success

\* The tasks that lie under a folder document of the user.
TasksOfUser == {t \in tasks : FolderExists(t.folder)}

\* C4: when every read succeeds, getTasksByUserId returns each task of each
\* folder of the user exactly once: as many tasks as the folders hold
\* together, empty folders included (null when they hold none).
C4_EveryTaskOnce ==
  (Succeeded("getTasksByUser") /\ ~op.dirty) =>
    LET v == op.ret.value IN
    IF TasksOfUser = {} THEN v.isNull
    ELSE /\ ~v.isNull
         /\ Len(v.list) = Cardinality(TasksOfUser)
         /\ \A t \in TasksOfUser : Occurrences(t.id, v.list) = 1
         /\ Range(v.list) = TasksOfUser

\* Two folders were read, one of them empty, and two tasks were returned.
C4_Witness ==
  /\ Succeeded("getTasksByUser")
  /\ \E f \in FolderIds : FolderExists(f) /\ TasksOf(f) = {}
  /\ Cardinality(folders) >= 2
  /\ Len(op.ret.value.list) >= 2

\* C5: when deleteTaskFolder completes without an error, the folder document
\* is absent, no task that was under the folder can be read, and, unless a
\* create-task request wrote under the folder meanwhile, its task
\* collection is empty.
C5_CascadeComplete ==
  Succeeded("deleteTaskFolder") =>
    /\ ~FolderExists(op.folderId)
    /\ \A id \in op.targets : ~TaskExists(op.folderId, id)
    /\ ~op.dirty => TasksOf(op.folderId) = {}

\* A folder with two tasks was deleted.
C5_Witness ==
  /\ Succeeded("deleteTaskFolder")
  /\ Cardinality(op.targets) >= 2
  /\ ~op.dirty

\* C6: a success envelope of deleteTaskFolder means the folder and all its
\* tasks are removed; a failed recursive delete gives success = false.
C6_DeleteFailureSurfaces ==
  Done("deleteTaskFolder") =>
    /\ op.failed => ~op.resp.success
    /\ op.resp.success =>
         /\ ~FolderExists(op.folderId)
         /\ \A id \in op.targets : ~TaskExists(op.folderId, id)

\* C7: no service operation returns an envelope with success = true for a
\* repository or store call that failed.
C7_StoreFailureIsFailure ==
  /\ (last.storeFailed /\ last.svc = "envelope") => ~last.success
  /\ (op.pc = "done" /\ op.failed /\ op.resp.svc = "envelope")
       => ~op.resp.success

\* C8: every service call returns an envelope, whatever the repository
\* does, and every request that reaches a controller is answered.
C8_AlwaysEnvelope ==
  /\ last.kind # "none" => /\ last.svc \in {"none", "envelope"}
                           /\ last.http # 0
  /\ (op.pc = "done" /\ op.kind \notin {"getNearingDueTasks", "getTaskFolder"})
       => /\ op.resp.svc = "envelope"
          /\ op.resp.http # 0

\* The task has an end_date that lies 0 to days whole days after now.
DueInDays(t, now, days) ==
  /\ ~IsNull(t.end_date)
  /\ 0 <= ValueOf(t.end_date) - now
  /\ ValueOf(t.end_date) - now <= days * DayUnits

\* C9: getNearingDueTasks returns exactly the tasks of the user's folders
\* with status "pending" or "in progress" that have an end_date with
\* 0 <= (end_date - now) in days <= daysThreshold, each once.
C9_NearingExact ==
  (Succeeded("getNearingDueTasks") /\ ~op.dirty) =>
    LET list == op.ret.value.list
        due == {t \in TasksOfUser :
                  /\ t.status \in {str_pending, str_in_progress}
                  /\ DueInDays(t, op.now, op.threshold)}
    IN /\ Ids(list) = {t.id : t \in due}
       /\ Len(list) = Cardinality(due)

\* A scan that returned a task due exactly daysThreshold days ahead and left
\* out a pending task that was due half a day before.
C9_Witness ==
  /\ Succeeded("getNearingDueTasks") /\ op.now = 21
  /\ \E i \in DOMAIN op.ret.value.list :
       op.ret.value.list[i].end_date = Some(27)
  /\ \E t \in TasksOfUser :
       /\ t.id \notin Ids(op.ret.value.list)
       /\ t.status = str_pending /\ t.end_date = Some(20)

\* A known spelling of pending or in progress, in any letter case, that
\* getTasksByFolder puts in pending or inProgress.
KnownIncomplete(status) ==
  /\ ToLowerCase(status) \in {str_pending, str_in_progress,
                              str_in_progress_underscore}
  /\ BucketOf(status) \in {"pending", "inProgress"}

\* C10: a task whose status is a known spelling of pending or in progress,
\* which getTasksByFolder puts in pending or inProgress, and whose end_date
\* is in the window is also returned by getNearingDueTasks.
C10_SpellingsAgree ==
  (Succeeded("getNearingDueTasks") /\ ~op.dirty) =>
    \A t \in TasksOfUser :
      (KnownIncomplete(t.status) /\ DueInDays(t, op.now, op.threshold))
        => t.id \in Ids(op.ret.value.list)

\* The entry of the listing for folder f.
StatsOf(list, f) == CHOOSE e \in Range(list) : e.id = f

\* C11: getTaskFoldersByUserId returns one entry per folder; totalTasks is
\* the number of tasks stored in the folder, completedTasksCount the number
\* of its tasks that getTasksByFolder puts in completed, and
\* 0 <= completedTasksCount <= totalTasks.
C11_StatsMatchBuckets ==
  (Succeeded("getTaskFolders") /\ ~op.dirty /\ folders # {}) =>
    LET list == op.ret.value.list IN
    /\ Len(list) = Cardinality(folders)
    /\ Ids(list) = {d.id : d \in folders}
    /\ \A d \in folders :
         LET e == StatsOf(list, d.id) IN
         /\ e.totalTasks = Cardinality(TasksOf(d.id))
         /\ e.completedTasksCount =
              Cardinality({t \in TasksOf(d.id) : BucketOf(t.status) = "completed"})
         /\ 0 <= e.completedTasksCount
         /\ e.completedTasksCount <= e.totalTasks

\* The start_date of the task lies on the calendar day of the date.
OnDay(t, date) ==
  /\ ~IsNull(t.start_date)
  /\ ToDateString(ValueOf(t.start_date)) = ToDateString(date.at)

\* The elements of the list whose start_date lies on the day of the date.
OfDay(list, date) == SelectSeq(list, LAMBDA t : OnDay(t, date))

\* C12: when getTasksByUserId returns, getTasksByDate succeeds and returns
\* exactly the tasks of that result whose start_date lies on the calendar
\* day of the date, whatever the time of day.
C12_ByDateExact ==
  (Succeeded("getTasksByDate") /\ ~op.dirty) =>
    /\ op.resp.success
    /\ op.out.list = OfDay(op.ret.value.list, op.date)

\* C13: when getTasksByFolder returns, getTasksByDateInFolder returns the
\* three buckets, each exactly the tasks of the same bucket of
\* getTasksByFolder whose start_date lies on the calendar day of the date.
C13_ByDateInFolderExact ==
  (Succeeded("getTasksByDateInFolder") /\ ~op.dirty) =>
    /\ op.resp.success
    /\ op.out.pending = OfDay(op.ret.value.pending, op.date)
    /\ op.out.inProgress = OfDay(op.ret.value.inProgress, op.date)
    /\ op.out.completed = OfDay(op.ret.value.completed, op.date)

\* C14: a successful createTaskFolder returns the generated id with the
\* submitted fields as they were persisted, and getTaskFolderByTaskFolderId
\* of an existing folder returns the persisted fields plus the id it was
\* read by.
C14_RoundTrip ==
  /\ (last.kind = "createTaskFolder" /\ last.success) =>
       LET created == last.data[1] IN
       /\ FolderExists(created.id)
       /\ FolderDoc(created.id).title = created.title
  /\ (Succeeded("getTaskFolder") /\ FolderExists(op.folderId)) =>
       LET read == op.ret.value.list[1] IN
       /\ read.title = FolderDoc(op.folderId).title
       /\ "id" \in DOMAIN read
       /\ read.id = op.folderId

\* C15: every stored task that has a start_date and an end_date has
\* end_date >= start_date, whatever create-task and update-task requests
\* were made.
C15_StoredDatesOrdered ==
  \A t \in tasks :
    (~IsNull(t.start_date) /\ ~IsNull(t.end_date))
      => ValueOf(t.end_date) >= ValueOf(t.start_date)

\* The last request answered was an update-task that supplied a start_date
\* and an end_date earlier than it.
UpdateEndsBeforeStart(l) ==
  /\ l.kind = "updateTask"
  /\ ~IsNull(l.req[1].start_date.val) /\ ~IsNull(l.req[1].end_date.val)
  /\ l.req[1].start_date.has /\ l.req[1].end_date.has
  /\ ValueOf(l.req[1].end_date.val) < ValueOf(l.req[1].start_date.val)

\* C16: an update-task request that supplies a start_date and an end_date
\* earlier than it is answered with a failure (400, success false) and
\* changes no stored task.
C16_BadDatesRejected ==
  [][(Free /\ UpdateEndsBeforeStart(last'))
       => /\ tasks' = tasks
          /\ ~last'.success /\ last'.http = 400]_vars

\* Such a request was answered with 400 while the store holds a task whose
\* dates differ from the ones supplied.
C16_Witness ==
  /\ UpdateEndsBeforeStart(last)
  /\ \E t \in tasks : /\ t.start_date # last.req[1].start_date.val
                      /\ t.end_date # last.req[1].end_date.val
  /\ last.http = 400

\* C17: every stored task has its status in allowedStatuses and its priority
\* in allowedPriorities, whatever create-task and update-task requests were
\* made.
C17_StoredEnumsAllowed ==
  \A t \in tasks :
    /\ t.status \in allowedStatuses
    /\ t.priority \in allowedPriorities

\* C18: no stored task has a title or description that is null or the empty
\* string, whatever create-task and update-task requests were made.
C18_StoredTextsNonEmpty ==
  \A t \in tasks :
    /\ t.title \notin {JsNull, Some("")}
    /\ t.description \notin {JsNull, Some("")}

\* A recursive delete of a folder is under way.
DeletingFolder == op.kind = "deleteTaskFolder" /\ op.pc \notin {"idle", "done"}

\* C19: whenever no deleteTaskFolder is in progress, every stored task lies
\* under a folder document that exists.
C19_NoOrphanTasks ==
  ~DeletingFolder => \A t \in tasks : FolderExists(t.folder)

\* C20: when no store read fails, getTasksByFolder throws an ApiError 404 for
\* a folder that does not exist, which its caller gets as a failure, and
\* returns for a folder that exists, three empty buckets when the folder
\* holds no task.
C20_NotFoundVsEmpty ==
  (Done("getTasksByFolder") /\ ~op.failed /\ ~op.dirty) =>
    IF FolderExists(op.folderId)
    THEN /\ op.ret.state = "returned"
         /\ TasksOf(op.folderId) = {} =>
              /\ op.ret.value.pending = <<>>
              /\ op.ret.value.inProgress = <<>>
              /\ op.ret.value.completed = <<>>
    ELSE /\ op.ret = Threw(404)
         /\ ~op.resp.success

\* The read of a folder that does not exist threw 404 while another folder
\* exists and holds no task.
C20_Witness ==
  /\ Done("getTasksByFolder")
  /\ ~FolderExists(op.folderId) /\ op.ret = Threw(404)
  /\ \E g \in FolderIds : FolderExists(g) /\ TasksOf(g) = {}

\* The request the outcome answers.
RequestOf(l) == l.req[1]

\* C21: an update-task-folder request for a folder id that has no document
\* is answered with success = false and leaves the store as it was: no
\* folder document is created.
C21_UpdateMissingFolderFails ==
  [][(/\ Free /\ last'.kind = "updateTaskFolder"
      /\ ~FolderExists(RequestOf(last').folderId))
       => /\ ~last'.success
          /\ folders' = folders /\ tasks' = tasks]_vars

\* Such a request, supplying a title, was answered with a failure while
\* another folder exists.
C21_Witness ==
  /\ last.kind = "updateTaskFolder"
  /\ RequestOf(last).details.title.has
  /\ ~FolderExists(RequestOf(last).folderId)
  /\ ~last.success
  /\ folders # {}

\* The field of the document after the update: the supplied value, or the
\* value it had.
FieldAfter(field, before) == IF field.has THEN field.val ELSE before

\* C22: a successful update-task request changes, in the task it names, the
\* fields its details supply to the supplied values and no other field, and
\* changes no other task and no folder; likewise a successful
\* update-task-folder request for the folder it names.
C22_PartialMerge ==
  [][(/\ Free /\ last'.success
      /\ last'.kind \in {"updateTask", "updateTaskFolder"})
       => LET r == RequestOf(last') IN
          IF last'.kind = "updateTask"
          THEN /\ folders' = folders
               /\ \E t \in tasks : \E u \in tasks' :
                    /\ t.folder = r.folderId /\ t.id = r.id
                    /\ u.folder = t.folder /\ u.id = t.id
                    /\ tasks' \ {u} = tasks \ {t}
                    /\ u.title = FieldAfter(r.details.title, t.title)
                    /\ u.description
                         = FieldAfter(r.details.description, t.description)
                    /\ u.status = FieldAfter(r.details.status, t.status)
                    /\ u.priority = FieldAfter(r.details.priority, t.priority)
                    /\ u.start_date
                         = FieldAfter(r.details.start_date, t.start_date)
                    /\ u.end_date = FieldAfter(r.details.end_date, t.end_date)
          ELSE /\ tasks' = tasks
               /\ \E d \in folders : \E e \in folders' :
                    /\ d.id = r.folderId /\ e.id = d.id
                    /\ folders' \ {e} = folders \ {d}
                    /\ e.title = FieldAfter(r.details.title, d.title)
                    /\ e.description
                         = FieldAfter(r.details.description, d.description)]_vars

\* An update-task request that supplied a status and no end_date succeeded
\* on a task whose end_date an earlier request had set, beside another task.
C22_Witness ==
  /\ last.kind = "updateTask" /\ last.success
  /\ RequestOf(last).details.status.has
  /\ ~RequestOf(last).details.end_date.has
  /\ \E t \in tasks :
       /\ t.folder = RequestOf(last).folderId /\ t.id = RequestOf(last).id
       /\ t.status = str_Completed /\ t.end_date = Some(24)
  /\ Cardinality(tasks) >= 2

\* C23: when the read after the write shows the new folder document absent,
\* createTaskFolder throws (ApiError 400) and the service returns success =
\* false; a folder record is returned only with the id and the data of the
\* document the read found.
C23_UnconfirmedCreateFails ==
  (Done("createTaskFolder") /\ ~op.failed) =>
    IF FolderExists(op.folderId)
    THEN /\ op.resp.success
         /\ op.ret.value.list =
              <<NewTaskFolder(op.folderId, FolderData(FolderDoc(op.folderId)))>>
    ELSE /\ op.ret = Threw(400)
         /\ op.resp.svc = "envelope" /\ ~op.resp.success

\* The new document was deleted between the two store calls, the read found
\* it absent and the service returned success = false.
C23_Witness ==
  /\ Done("createTaskFolder") /\ ~op.failed /\ op.dirty
  /\ ~FolderExists(op.folderId)
  /\ op.ret = Threw(400) /\ ~op.resp.success

\* The requests that read every folder of the user with one read per folder.
ScanKinds == {"getTasksByUser", "getNearingDueTasks", "getTaskFolders"}

\* C24: getTasksByUserId, getNearingDueTasks and getTaskFoldersByUserId have
\* no result while a task read of a folder is pending; when one returns,
\* the read of every listed folder has succeeded, in whatever order the
\* reads completed, and the result holds what each of them found.
C24_AllBranchesBeforeResult ==
  /\ (op.kind \in ScanKinds /\ op.pc = "fanout")
       => op.ret = NoRet /\ op.resp = NoResp
  /\ \A kind \in ScanKinds :
       Succeeded(kind) =>
         /\ \A f \in FolderIds : op.branch[f] # "pending"
         /\ \A f \in Listed(op) : op.branch[f] = "ok"
  /\ (Succeeded("getTasksByUser") /\ ~op.dirty) =>
       \A t \in TasksOfUser : t.id \in Ids(op.ret.value.list)
  /\ (Succeeded("getNearingDueTasks") /\ ~op.dirty) =>
       \A t \in TasksOfUser :
         IsNearing(t, op.now, op.threshold) => t.id \in Ids(op.ret.value.list)
  /\ (Succeeded("getTaskFolders") /\ ~op.dirty) =>
       \A d \in folders :
         /\ d.id \in Ids(op.ret.value.list)
         /\ StatsOf(op.ret.value.list, d.id).totalTasks
              = Cardinality(TasksOf(d.id))

\* getNearingDueTasks returned the task of the first folder after the task
\* of a later folder: the read of the first folder completed last.
C24_Witness ==
  /\ Succeeded("getNearingDueTasks")
  /\ Len(op.ret.value.list) >= 2
  /\ op.ret.value.list[1].task_folder_id > op.ret.value.list[2].task_folder_id

\* The title of the folder document of id f among the documents read.
TitleRead(docs, f) == (CHOOSE d \in Range(docs) : d.id = f).title

\* Every item of getNearingDueTasks carries as folder_source the title of
\* the folder document that owns it, as the scan listed it.
NearingSourceIsTitle ==
  Succeeded("getNearingDueTasks") =>
    \A item \in Range(op.ret.value.list) :
      item.folder_source = TitleRead(op.docs, item.task_folder_id)

C26_EmptyIsNotFailure ==
  \A kind \in {"getTaskFolders", "getTasksByUser"} :
    Done(kind) =>
      /\ op.resp.svc = "envelope"
      /\ op.resp.success = ~op.failed
      /\ (~op.failed /\ ~op.dirty) =>
           /\ op.ret.state = "returned"
           /\ folders = {} => op.ret.value.isNull
           /\ (kind = "getTasksByUser" /\ TasksOfUser = {}) => op.ret.value.isNull
           /\ (kind = "getTaskFolders" /\ folders # {}) => ~op.ret.value.isNull

\* getTasksByUser answered success = true with null for folders that hold
\* no task.
C26_Witness ==
  /\ Done("getTasksByUser")
  /\ folders # {} /\ TasksOfUser = {}
  /\ op.resp.success /\ op.ret.value.isNull

\* C27: an update-task request whose title or description is null is
\* answered with a failure before any store call and changes no task; one
\* that omits both passes the check and makes the store update, which
\* succeeds or fails as the store call does.
C27_NullRejectedOmittedPasses ==
  [][(Free /\ last'.kind = "updateTask")
       => LET r == RequestOf(last')
              d == r.details
          IN IF \/ d.title.has /\ d.title.val = JsNull
                \/ d.description.has /\ d.description.val = JsNull
             THEN /\ ~last'.success /\ ~last'.storeFailed
                  /\ tasks' = tasks
             ELSE (~d.title.has /\ ~d.description.has) =>
                    /\ last'.success \/ last'.storeFailed
                    /\ last'.success => TaskExists(r.folderId, r.id)
                    /\ ~TaskExists(r.folderId, r.id) => last'.storeFailed]_vars

\* A request that omitted title and description and supplied a status
\* updated the task.
C27_Witness ==
  /\ last.kind = "updateTask" /\ last.success
  /\ ~RequestOf(last).details.title.has
  /\ ~RequestOf(last).details.description.has
  /\ RequestOf(last).details.status.has
  /\ \E t \in tasks :
       /\ t.folder = RequestOf(last).folderId /\ t.id = RequestOf(last).id
       /\ t.status = str_Completed /\ t.title = Some("text")

\* The read operations of the repositories.
ReadKinds ==
  {"getTaskFolders", "getTaskFolder", "getTasksByUser", "getTasksByFolder",
   "getTask", "getTasksByDate", "getTasksByDateInFolder", "getNearingDueTasks"}

\* C28: no step of a read operation changes a document of the store or the
\* ids it generates, whether the operation returns, throws, or stays
\* suspended with reads of its fan-out pending.
C28_ReadsLeaveStore ==
  [][op'.kind \in ReadKinds => store' = store]_vars

\* A scan over two folders is suspended with the read of one folder done and
\* the other pending, over a store that holds tasks.
C28_Witness ==
  /\ op.kind = "getNearingDueTasks" /\ op.pc = "fanout"
  /\ \E f \in FolderIds : op.branch[f] = "ok"
  /\ \E f \in FolderIds : op.branch[f] = "pending"
  /\ tasks # {}

\* The place of end_date in the ascending order of the store: null comes
\* before every date.
EndDateRank(t) == IF IsNull(t.end_date) THEN -1 ELSE ValueOf(t.end_date)

\* The list is in ascending order of end_date.
AscendingByEndDate(list) ==
  \A i, j \in DOMAIN list : i < j => EndDateRank(list[i]) <= EndDateRank(list[j])

\* The elements of the list follow each other as their documents do in the
\* ordered read.
InReadOrder(list, read) ==
  \A i, j \in DOMAIN list :
    i < j => \E k, l \in DOMAIN read :
               /\ k < l
               /\ read[k].id = list[i].id /\ read[l].id = list[j].id

\* C29: in each of the three buckets getTasksByFolder returns for
\* orderBy = "end_date", the tasks are in ascending order of end_date and
\* follow each other as in the ordered read of the task collection.
C29_BucketsOrdered ==
  (Succeeded("getTasksByFolder") /\ ~op.dirty /\ op.orderBy = "end_date") =>
    LET v == op.ret.value
        read == OrderBy(TasksOf(op.folderId), op.orderBy)
    IN \A b \in {v.pending, v.inProgress, v.completed} :
         /\ AscendingByEndDate(b)
         /\ InReadOrder(b, read)

\* Two pending tasks were returned, the task of the greater id first because
\* its end_date is the earlier.
C29_Witness ==
  /\ Succeeded("getTasksByFolder")
  /\ Len(op.ret.value.pending) >= 2
  /\ op.ret.value.pending[1].id > op.ret.value.pending[2].id
  /\ EndDateRank(op.ret.value.pending[1]) < EndDateRank(op.ret.value.pending[2])

\* The route has no parameter: its path is the one path it is documented for.
LiteralRoute(i) == \A k \in DOMAIN Routes[i].path : Routes[i].path[k] \notin ParamSegments

\* C30: a request whose method and path are those of a route without
\* parameters is dispatched to the handler of that route (GET
\* fetch-tasks/folder/date to getTasksByDateInFolder), and any other request
\* that a route with a parameter matches to the handler of that route.
C30_RouteReachesOwnHandler ==
  (op.kind = "request" /\ op.pc = "done") =>
    \A i \in DOMAIN Routes :
      /\ (op.method = Routes[i].method /\ op.path = Routes[i].path)
           => op.handler = Routes[i].handler
      /\ (/\ i \in Hits(op.method, op.path)
          /\ ~\E j \in Hits(op.method, op.path) : LiteralRoute(j))
           => op.handler = Routes[i].handler

====
